---------------------------- MODULE Spec2Model ----------------------------
(***************************************************************************)
(* Model of docker-vertica/re-ip-node.py: the script that re-IPs or        *)
(* restarts the local Vertica node inside a Kubernetes pod.                *)
(*                                                                         *)
(* Text is modelled as a sequence of tokens.  The separators the script    *)
(* and its shell pipelines look at (" ", "\t", "\n", ",", "_", ":") are    *)
(* tokens of their own; every other token is a word that contains none of  *)
(* them.  str.rstrip, str.split, the `in` substring test, the grep/head/   *)
(* sed pipeline and the f-strings are computed on these sequences.         *)
(* Command output is taken to be decodable text.                           *)
(***************************************************************************)
EXTENDS Integers, Sequences, FiniteSets, TLC

(***************************************************************************)
(* Python string primitives                                                *)
(***************************************************************************)
EmptyStr == <<>>

Whitespace == {" ", "\t", "\n"}

RECURSIVE RStrip(_)
\* str.rstrip(): drop trailing whitespace
RStrip(s) ==
    IF s = <<>> THEN <<>>
    ELSE IF s[Len(s)] \in Whitespace THEN RStrip(SubSeq(s, 1, Len(s) - 1))
    ELSE s

RECURSIVE SplitAcc(_, _, _)
SplitAcc(s, sep, cur) ==
    IF s = <<>> THEN <<cur>>
    ELSE IF Head(s) = sep THEN <<cur>> \o SplitAcc(Tail(s), sep, <<>>)
    ELSE SplitAcc(Tail(s), sep, Append(cur, Head(s)))

\* str.split(sep) with an explicit one-character separator: always at least
\* one field, empty fields kept
Split(s, sep) == SplitAcc(s, sep, <<>>)

StartsWith(s, p) == Len(p) <= Len(s) /\ SubSeq(s, 1, Len(p)) = p

\* a substring test that only looks at the start of the text
ContainsAtStartOnly(sub, s) == StartsWith(s, sub)

RECURSIVE Contains(_, _)
\* `sub in s`: scan the start positions left to right
Contains(sub, s) ==
    IF Len(sub) > Len(s) THEN FALSE
    ELSE IF StartsWith(s, sub) THEN TRUE
    ELSE Contains(sub, Tail(s))

(***************************************************************************)
(* Words of the modelled world                                             *)
(***************************************************************************)
Sp == " "
Tab == "\t"
NL == "\n"

MyDb == <<"mydb">>
OtherDb == <<"otherdb">>
CatPath == <<"/cat">>
DataPath == <<"/data">>
AltPath == <<"/alt">>

CatalogName(node) == <<"v", "_", "mydb", "_", node, "_", "catalog">>
DataName(node) == <<"v", "_", "mydb", "_", node, "_", "data">>
NodeName(node) == <<"v", "_", "mydb", "_", node>>
LostFound == <<"lost+found">>

(***************************************************************************)
(* Inputs of one invocation                                                *)
(***************************************************************************)
\* command line: the two store_true flags of argparse
ArgSets == [reIpNode : BOOLEAN, restartNode : BOOLEAN]

\* /opt/vertica/config/admintools.conf as os.path.isfile, os.stat and
\* configparser see it: whether read() raises configparser.Error, whether a
\* Nodes section exists, and the (key, value) items of that section in file
\* order
ConfFile(isfile, size, parseError, hasNodes, nodes) ==
    [isfile |-> isfile, st_size |-> size, parseError |-> parseError,
     hasNodes |-> hasNodes, nodes |-> nodes]

NodeEntry(key, ip, catalog, data) ==
    <<key, <<ip, ",">> \o catalog \o <<",">> \o data>>

ConfMissing == ConfFile(FALSE, 0, FALSE, FALSE, <<>>)
ConfEmpty == ConfFile(TRUE, 0, FALSE, FALSE, <<>>)
ConfUnparsable == ConfFile(TRUE, 1, TRUE, FALSE, <<>>)
ConfNoNodes == ConfFile(TRUE, 1, FALSE, FALSE, <<>>)
ConfNodesNoEntries == ConfFile(TRUE, 1, FALSE, TRUE, <<>>)
ConfOneField == ConfFile(TRUE, 1, FALSE, TRUE, << <<"node0001", <<"10.0.0.1">>>> >>)
ConfUniform ==
    ConfFile(TRUE, 1, FALSE, TRUE,
             << NodeEntry("node0001", "10.0.0.1", CatPath, DataPath),
                NodeEntry("node0002", "10.0.0.2", CatPath, DataPath) >>)
ConfMixed ==
    ConfFile(TRUE, 1, FALSE, TRUE,
             << NodeEntry("node0001", "10.0.0.1", CatPath, DataPath),
                NodeEntry("node0002", "10.0.0.2", AltPath, DataPath) >>)

ConfFiles ==
    {ConfMissing, ConfEmpty, ConfUnparsable, ConfNoNodes, ConfNodesNoEntries,
     ConfOneField, ConfUniform, ConfMixed}

\* os.environ restricted to POD_IP: a function whose domain holds the key
\* only when the variable is set
EnvUnset == [k \in {} |-> EmptyStr]
EnvSet(v) == [k \in {"POD_IP"} |-> v]
Environs == {EnvUnset, EnvSet(EmptyStr), EnvSet(<<"10.0.0.5">>), EnvSet(<<"10.0.0.6">>)}

\* /etc/podinfo/superuser-passwd
SecretFiles ==
    { [isfile |-> FALSE, content |-> EmptyStr],
      [isfile |-> TRUE, content |-> <<NL>>],
      [isfile |-> TRUE, content |-> <<"secret", NL>>] }

\* the entries of the directory <CatPath>/mydb/
CatalogDirs ==
    { {},
      {LostFound},
      {CatalogName("node0002"), CatalogName("node0001")},
      {CatalogName("node0002"), LostFound, DataName("node0001")} }

(***************************************************************************)
(* External commands: what the shell and admintools can answer             *)
(***************************************************************************)
\* stdout and exit status of a finished subprocess
Resp(out, rc) == [out |-> out, returncode |-> rc]

\* answers of `admintools -t show_active_db`
ActiveDbResponses ==
    { Resp(EmptyStr, 0), Resp(EmptyStr, 1), Resp(<<NL>>, 0),
      Resp(<<"mydb", NL>>, 0), Resp(<<"mydb", NL>>, 1),
      Resp(<<"mydb", Sp, "extra", NL>>, 0),
      Resp(<<Sp, "mydb", NL>>, 0),
      Resp(<<"mydb", Tab, "extra", NL>>, 0),
      Resp(<<"otherdb", NL>>, 0) }

\* collation of `ls`: byte order of the words that occur in file names
TokOrder ==
    <<"_", "catalog", "data", "lost+found", "mydb", "node0001", "node0002", "v">>

TokRank(t) == CHOOSE i \in 1..Len(TokOrder) : TokOrder[i] = t

RECURSIVE LexLess(_, _)
LexLess(a, b) ==
    IF a = <<>> THEN b # <<>>
    ELSE IF b = <<>> THEN FALSE
    ELSE IF Head(a) = Head(b) THEN LexLess(Tail(a), Tail(b))
    ELSE TokRank(Head(a)) < TokRank(Head(b))

RECURSIVE Sorted(_)
\* the lines `ls` writes: the names in ascending order
Sorted(names) ==
    IF names = {} THEN <<>>
    ELSE LET m == CHOOSE x \in names : \A y \in names \ {x} : LexLess(x, y)
         IN  <<m>> \o Sorted(names \ {m})

\* `ls <catalogPath>/<dbName>/`: the directory's entries, nothing when the
\* directory does not exist (the error goes to stderr)
Ls(catalogPath, dbName, dir) ==
    IF catalogPath = CatPath /\ dbName = MyDb THEN Sorted(dir)
    ELSE IF catalogPath = DataPath /\ dbName = MyDb THEN <<DataName("node0001")>>
    ELSE <<>>

\* grep '^v_.*_catalog$' on one line
GrepCatalog(line) ==
    /\ Len(line) >= 4
    /\ line[1] = "v" /\ line[2] = "_"
    /\ line[Len(line) - 1] = "_" /\ line[Len(line)] = "catalog"

\* tail -1 in the place of head -1
LastLine(lines) == IF lines = <<>> THEN <<>> ELSE <<lines[Len(lines)]>>

\* head -1
Head1(lines) == IF lines = <<>> THEN <<>> ELSE <<Head(lines)>>

RECURSIVE SedStripLast(_)
\* sed 's/_[^_]*$//' on one line: cut at the last underscore
SedStripLast(line) ==
    IF \A i \in 1..Len(line) : line[i] # "_" THEN line
    ELSE IF line[Len(line)] = "_" THEN SubSeq(line, 1, Len(line) - 1)
    ELSE SedStripLast(SubSeq(line, 1, Len(line) - 1))

\* stdout of ls | grep | head -1 | sed: at most one line, newline-terminated
LsPipeline(catalogPath, dbName, dir) ==
    LET matched == SelectSeq(Ls(catalogPath, dbName, dir), GrepCatalog)
        first == Head1(matched)
    IN  IF first = <<>> THEN EmptyStr ELSE SedStripLast(first[1]) \o <<NL>>

\* stdout of `cat /etc/podinfo/superuser-passwd 2> /dev/null || :`
CatSecret(file) == IF file.isfile THEN file.content ELSE EmptyStr

\* answers of `admintools -t db_change_node_ip`
nodeReIpMsg ==
    <<"IP", Sp, "addresses", Sp, "of", Sp, "nodes", Sp, "have", Sp, "been", Sp,
      "updated", Sp, "successfully">>

nodeNoIpChangeMsg ==
    <<"Skip", Sp, "updating", Sp, "IP", Sp, "addresses", ":", Sp, "all", Sp,
      "nodes", Sp, "have", Sp, "up-to-date", Sp, "addresses">>

NotDownText == <<"Error", ":", Sp, "node", Sp, "is", Sp, "not", Sp, "DOWN", NL>>

ReIpResponses ==
    { Resp(nodeReIpMsg \o <<NL>>, 0),
      Resp(nodeReIpMsg \o <<NL>>, 1),
      Resp(<<"Info", ":", Sp>> \o nodeReIpMsg \o <<".", NL>>, 0),
      Resp(nodeNoIpChangeMsg \o <<NL>>, 0),
      Resp(SubSeq(nodeReIpMsg, 1, Len(nodeReIpMsg) - 2) \o <<NL>>, 0),
      Resp(NotDownText, 0),
      Resp(NotDownText, 1),
      Resp(EmptyStr, 1) }

\* answers of `admintools -t restart_node`
UpLine(node) == NodeName(node) \o <<":", Sp, "(UP)">>
DownLine(node) == NodeName(node) \o <<":", Sp, "(DOWN)">>

RestartResponses ==
    { Resp(UpLine("node0001") \o <<NL>>, 0),
      Resp(UpLine("node0001") \o <<NL>>, 1),
      Resp(<<"*", Sp>> \o UpLine("node0001") \o <<Sp, NL>>, 0),
      Resp(UpLine("node0002") \o <<NL>>, 0),
      Resp(DownLine("node0001") \o <<NL>> \o UpLine("node0002") \o <<NL>>, 0),
      Resp(DownLine("node0002") \o <<NL>>, 1),
      Resp(EmptyStr, 1) }

(***************************************************************************)
(* The functions of re-ip-node.py                                          *)
(***************************************************************************)
atConfFilePath == <<"/opt/vertica/config/admintools.conf">>

AdmintoolsBin == "/opt/vertica/bin/admintools"

\* a membership check that always answers yes
checkAdmintoolsConfExistsAlways(file) == TRUE

checkAdmintoolsConfExists(file) == file.isfile

\* One subprocess run.  result: the decoded stdout, whatever the exit status;
\* log: the record of the invocation; prints: the error line written when the
\* exit status is not 0.
getCommandResult(cmdArgs, label, resp) ==
    [result |-> resp.out,
     log |-> [label |-> label, args |-> cmdArgs, out |-> resp.out,
              returncode |-> resp.returncode],
     prints |-> IF resp.returncode # 0
                THEN << <<"Error in running command ", label>> >>
                ELSE <<>>]

ShowActiveDbArgs == <<AdmintoolsBin, Sp, "-t", Sp, "show_active_db">>

\* getActiveDB without the rstrip of line 37
getActiveDBNoRStrip(resp) ==
    LET r == getCommandResult(ShowActiveDbArgs, "get active db", resp)
        activeDbStr == r.result
    IN  IF activeDbStr = EmptyStr
        THEN [value |-> EmptyStr, cmds |-> <<r.log>>, prints |-> r.prints]
        ELSE LET db == Split(activeDbStr, Sp)[1]
             IN  [value |-> db, cmds |-> <<r.log>>,
                  prints |-> r.prints \o << <<"active database is: ">> \o db >>]

getActiveDB(resp) ==
    LET r == getCommandResult(ShowActiveDbArgs, "get active db", resp)
        activeDbStr == RStrip(r.result)
    IN  IF activeDbStr = EmptyStr
        THEN [value |-> EmptyStr, cmds |-> <<r.log>>, prints |-> r.prints]
        ELSE LET db == Split(activeDbStr, Sp)[1]
             IN  [value |-> db, cmds |-> <<r.log>>,
                  prints |-> r.prints \o << <<"active database is: ">> \o db >>]

LsArgs(catalogPath, dbName) ==
    <<"ls", Sp>> \o catalogPath \o <<"/">> \o dbName
        \o <<"/", Sp, "| grep '^v_.*_catalog$' | head -1 | sed 's/_[^_]*$//'">>

NotFound(prints) ==
    [raised |-> "", succeeded |-> FALSE, name |-> EmptyStr, cmds |-> <<>>,
     prints |-> prints]

Raise(exc) ==
    [raised |-> exc, succeeded |-> FALSE, name |-> EmptyStr, cmds |-> <<>>,
     prints |-> <<>>]

\* a catalog path taken from the last item of the section
CatalogPathOfLastEntry(nodes) == Split(nodes[Len(nodes)][2], ",")[2]

\* the value of the first item of the Nodes section, second comma field
CatalogPathOf(nodes) == Split(nodes[1][2], ",")[2]

getLocalVerticaNodeName(dbName, file, dir) ==
    IF ~file.isfile \/ file.st_size <= 0 THEN NotFound(<<>>)
    ELSE IF file.parseError
    THEN NotFound(<< <<"Error during reading admintools.conf">> >>)
    ELSE IF ~file.hasNodes THEN NotFound(<<>>)
    ELSE IF Len(file.nodes) < 1 THEN Raise("IndexError")
    ELSE IF Len(Split(file.nodes[1][2], ",")) < 2 THEN Raise("IndexError")
    ELSE LET catalogPath == CatalogPathOf(file.nodes)
             r == getCommandResult(LsArgs(catalogPath, dbName),
                                   "get local Vertica node name",
                                   Resp(LsPipeline(catalogPath, dbName, dir), 0))
             name == RStrip(r.result)
         IN  [raised |-> "", succeeded |-> name # EmptyStr, name |-> name,
              cmds |-> <<r.log>>, prints |-> r.prints]

getLocalPodIp(env) ==
    IF "POD_IP" \in DOMAIN env
    THEN [raised |-> "", value |-> env["POD_IP"]]
    ELSE [raised |-> "KeyError", value |-> EmptyStr]

CatSecretArgs == <<"cat /etc/podinfo/superuser-passwd 2> /dev/null || :">>

getDbAdminPwd(file) ==
    LET r == getCommandResult(CatSecretArgs, "get dbadmin secret",
                              Resp(CatSecret(file), 0))
    IN  [value |-> RStrip(r.result), cmds |-> <<r.log>>, prints |-> r.prints]

\* a password option added whether or not there is a password
PassOptsAlways(dbadminPwd) == <<Sp, "-p", Sp>> \o dbadminPwd

\* " -p {}".format(dbadminPwd) if dbadminPwd else ""
PassOpts(dbadminPwd) ==
    IF dbadminPwd # EmptyStr THEN <<Sp, "-p", Sp>> \o dbadminPwd ELSE EmptyStr

ReIpArgs(db, node, newIp, dbadminPwd) ==
    <<AdmintoolsBin, Sp, "-t", Sp, "db_change_node_ip", Sp, "-d", Sp>> \o db
        \o <<Sp, "-s", Sp>> \o node \o <<Sp, "--new-host-ips", Sp>> \o newIp
        \o PassOpts(dbadminPwd)

RestartArgs(db, node, dbadminPwd) ==
    <<AdmintoolsBin, Sp, "-t", Sp, "restart_node", Sp, "-d", Sp>> \o db
        \o <<Sp, "-s", Sp>> \o node \o PassOpts(dbadminPwd)

NoPodIpMsg == <<"Failed to get IP address of local Pod.">>

ReIpFailedMsg ==
    <<"Failed to update IP address for local Vertica node, check admintools.log for more information.">>

RestartFailedMsg ==
    <<"Failed to restart local Vertica node, check admintools.log for more information.">>

\* a test that knows only the "updated" phrase
ReIpSucceededUpdatedOnly(nodeReIpResult) ==
    Contains(nodeReIpMsg, nodeReIpResult)

\* the test of line 99
ReIpSucceeded(nodeReIpResult) ==
    Contains(nodeReIpMsg, nodeReIpResult)
        \/ Contains(nodeNoIpChangeMsg, nodeReIpResult)

reIpLocalNodeClusterUp(db, node, env, secretFile, resp) ==
    LET ip == getLocalPodIp(env)
    IN  IF ip.raised # ""
        THEN [raised |-> ip.raised, succeeded |-> FALSE, msg |-> EmptyStr,
              cmds |-> <<>>, prints |-> <<>>]
        ELSE IF ip.value = EmptyStr
        THEN [raised |-> "", succeeded |-> FALSE, msg |-> NoPodIpMsg,
              cmds |-> <<>>, prints |-> <<>>]
        ELSE LET pwd == getDbAdminPwd(secretFile)
                 r == getCommandResult(ReIpArgs(db, node, ip.value, pwd.value),
                                       "update IP address of local Vertica node",
                                       resp)
                 ok == ReIpSucceeded(r.result)
             IN  [raised |-> "", succeeded |-> ok,
                  msg |-> IF ok THEN EmptyStr ELSE ReIpFailedMsg,
                  cmds |-> pwd.cmds \o <<r.log>>,
                  prints |-> pwd.prints
                      \o << <<"Updating IP address of local Vertica node ">>
                              \o node \o <<" to be ">> \o ip.value >>
                      \o r.prints]

\* f"{localVNodeName}: (UP)"
nodeRestartMsg(node) == node \o <<":", Sp, "(UP)">>

\* a restart test that accepts any node reported UP
RestartSucceededAnyNode(node, restartResult) ==
    Contains(<<":", Sp, "(UP)">>, restartResult)

\* the test of line 117
RestartSucceeded(node, restartResult) ==
    Contains(nodeRestartMsg(node), restartResult)

\* a restart that runs the command a second time when the first answer fails
restartLocalNodeRetry(db, node, secretFile, resp) ==
    LET pwd == getDbAdminPwd(secretFile)
        r == getCommandResult(RestartArgs(db, node, pwd.value),
                              "restart local Vertica node", resp)
        ok == RestartSucceeded(node, r.result)
    IN  [raised |-> "", succeeded |-> ok,
         msg |-> IF ok THEN EmptyStr ELSE RestartFailedMsg,
         cmds |-> pwd.cmds \o <<r.log>> \o (IF ok THEN <<>> ELSE <<r.log>>),
         prints |-> pwd.prints
             \o << <<"Restarting local Vertica node ">> \o node >>
             \o r.prints]

restartLocalNode(db, node, secretFile, resp) ==
    LET pwd == getDbAdminPwd(secretFile)
        r == getCommandResult(RestartArgs(db, node, pwd.value),
                              "restart local Vertica node", resp)
        ok == RestartSucceeded(node, r.result)
    IN  [raised |-> "", succeeded |-> ok,
         msg |-> IF ok THEN EmptyStr ELSE RestartFailedMsg,
         cmds |-> pwd.cmds \o <<r.log>>,
         prints |-> pwd.prints
             \o << <<"Restarting local Vertica node ">> \o node >>
             \o r.prints]

(***************************************************************************)
(* State of one invocation of main                                         *)
(***************************************************************************)
VARIABLES
    args,            \* parsed command line
    atConf,          \* the file at atConfFilePath
    environ,         \* os.environ
    secret,          \* the mounted superuser password file
    catalogDir,      \* entries of the catalog directory of mydb
    pc,              \* position in main
    activeDb,        \* main's activeDb
    localVNodeName,  \* main's localVNodeName
    cmds,            \* every getCommandResult call so far, in order
    calls,           \* the functions main has entered, in order
    stdout,          \* the lines written so far
    outcome,         \* running, clean, success, failure or crash
    exitCode,        \* process exit status, -1 while running
    raised,          \* the uncaught exception, if any
    run,             \* ordinal of this invocation
    prev             \* what the previous invocation did to the node address

vars ==
    <<args, atConf, environ, secret, catalogDir, pc, activeDb, localVNodeName,
      cmds, calls, stdout, outcome, exitCode, raised, run, prev>>

inputs == <<args, atConf, environ, secret, catalogDir>>

\* number of invocations the orchestrator makes (the init container is retried)
MaxRuns == 2

NoPrev ==
    [issued |-> FALSE, db |-> EmptyStr, node |-> EmptyStr,
     ip |-> EmptyStr, pwd |-> EmptyStr, args |-> EmptyStr, out |-> EmptyStr,
     exitCode |-> 0]

Init ==
    /\ args \in ArgSets
    /\ atConf \in ConfFiles
    /\ environ \in Environs
    /\ secret \in SecretFiles
    /\ catalogDir \in CatalogDirs
    /\ pc = "checkConf"
    /\ activeDb = EmptyStr
    /\ localVNodeName = EmptyStr
    /\ cmds = <<>>
    /\ calls = <<>>
    /\ stdout = <<>>
    /\ outcome = "running"
    /\ exitCode = -1
    /\ raised = ""
    /\ run = 1
    /\ prev = NoPrev

\* sys.exit(code), or the interpreter ending on an uncaught exception
Exit(kind, code, exc) ==
    /\ pc' = "exited"
    /\ outcome' = kind
    /\ exitCode' = code
    /\ raised' = exc

Continue(next) ==
    /\ pc' = next
    /\ UNCHANGED <<outcome, exitCode, raised>>

\* step 1, lines 135-138
CheckAdmintoolsConf ==
    /\ pc = "checkConf"
    /\ calls' = Append(calls, "checkAdmintoolsConfExists")
    /\ IF ~checkAdmintoolsConfExists(atConf)
       THEN /\ stdout' = Append(stdout, <<"The host does not belong to a Vertica cluster.">>)
            /\ Exit("clean", 0, "")
       ELSE /\ stdout' = stdout
            /\ Continue("getActiveDB")
    /\ UNCHANGED <<inputs, activeDb, localVNodeName, cmds, run, prev>>

\* step 2 with a gate that never closes
GetActiveDBNoGate ==
    /\ pc = "getActiveDB"
    /\ \E resp \in ActiveDbResponses :
         LET r == getActiveDB(resp)
         IN  /\ calls' = Append(calls, "getActiveDB")
             /\ cmds' = cmds \o r.cmds
             /\ activeDb' = r.value
             /\ stdout' = stdout \o r.prints
             /\ Continue("getNodeName")
    /\ UNCHANGED <<inputs, localVNodeName, run, prev>>

\* step 2, lines 142-145
GetActiveDB ==
    /\ pc = "getActiveDB"
    /\ \E resp \in ActiveDbResponses :
         LET r == getActiveDB(resp)
         IN  /\ calls' = Append(calls, "getActiveDB")
             /\ cmds' = cmds \o r.cmds
             /\ activeDb' = r.value
             /\ IF r.value = EmptyStr
                THEN /\ stdout' = stdout \o r.prints
                          \o << <<"There is no UP database to restart the node, try start the database first.">> >>
                     /\ Exit("clean", 0, "")
                ELSE /\ stdout' = stdout \o r.prints
                     /\ Continue("getNodeName")
    /\ UNCHANGED <<inputs, localVNodeName, run, prev>>

\* lines 148-151
GetLocalVerticaNodeName ==
    /\ pc = "getNodeName"
    /\ LET r == getLocalVerticaNodeName(activeDb, atConf, catalogDir)
       IN  /\ calls' = Append(calls, "getLocalVerticaNodeName")
           /\ cmds' = cmds \o r.cmds
           /\ localVNodeName' = r.name
           /\ IF r.raised # ""
              THEN /\ stdout' = stdout \o r.prints
                   /\ Exit("crash", 1, r.raised)
              ELSE IF ~r.succeeded
              THEN /\ stdout' = stdout \o r.prints
                        \o << <<"Local Vertica node does not belong to a Vertica database.">> >>
                   /\ Exit("clean", 0, "")
              ELSE /\ stdout' = stdout \o r.prints
                   /\ Continue("dispatch")
    /\ UNCHANGED <<inputs, activeDb, run, prev>>

\* the tail of an operation branch of main: lines 158-163 and 166-171
Report(r, errorPrefix, successLine) ==
    IF r.raised # ""
    THEN /\ stdout' = stdout \o r.prints
         /\ Exit("crash", 1, r.raised)
    ELSE IF ~r.succeeded
    THEN /\ stdout' = stdout \o r.prints \o <<errorPrefix \o r.msg>>
         /\ Exit("failure", 1, "")
    ELSE /\ stdout' = stdout \o r.prints \o <<successLine>>
         /\ Exit("success", 0, "")

\* lines 153-163
ReIpLocalNode ==
    /\ pc = "dispatch"
    /\ args.reIpNode
    /\ \E resp \in ReIpResponses :
         LET r == reIpLocalNodeClusterUp(activeDb, localVNodeName, environ, secret, resp)
         IN  /\ calls' = Append(calls, "reIpLocalNodeClusterUp")
             /\ cmds' = cmds \o r.cmds
             /\ Report(r, <<"Error in updating IP address for local Vertica node: ">>,
                       <<"IP address of local Vertica node has been updated successfully.">>)
    /\ UNCHANGED <<inputs, activeDb, localVNodeName, run, prev>>

\* lines 164-171
RestartLocalNode ==
    /\ pc = "dispatch"
    /\ ~args.reIpNode
    /\ args.restartNode
    /\ \E resp \in RestartResponses :
         LET r == restartLocalNode(activeDb, localVNodeName, secret, resp)
         IN  /\ calls' = Append(calls, "restartLocalNode")
             /\ cmds' = cmds \o r.cmds
             /\ Report(r, <<"Error in restarting local Vertica node: ">>,
                       <<"Local Vertica node has been restarted successfully.">>)
    /\ UNCHANGED <<inputs, activeDb, localVNodeName, run, prev>>

\* neither flag: main returns after the detection steps
NoOperation ==
    /\ pc = "dispatch"
    /\ ~args.reIpNode
    /\ ~args.restartNode
    /\ Exit("clean", 0, "")
    /\ UNCHANGED <<inputs, activeDb, localVNodeName, cmds, calls, stdout, run, prev>>

Next ==
    \/ CheckAdmintoolsConf
    \/ GetActiveDB
    \/ GetLocalVerticaNodeName
    \/ ReIpLocalNode
    \/ RestartLocalNode
    \/ NoOperation

Spec == Init /\ [][Next]_vars

(***************************************************************************)
(* Re-invocation: the init container retries the script (lines 154-156).   *)
(* The command line, the membership file and the catalog directory stay;   *)
(* the pod address and the mounted secret may differ.                      *)
(***************************************************************************)
ReIpLabel == "update IP address of local Vertica node"

\* what the invocation that just ended did through db_change_node_ip
RunSummary ==
    LET idx == {i \in 1..Len(cmds) : cmds[i].label = ReIpLabel}
    IN  IF idx = {} THEN NoPrev
        ELSE LET e == cmds[CHOOSE i \in idx : TRUE]
             IN  [issued |-> TRUE, db |-> activeDb,
                  node |-> localVNodeName, ip |-> environ["POD_IP"],
                  pwd |-> RStrip(CatSecret(secret)),
                  args |-> e.args, out |-> e.out, exitCode |-> exitCode]

Reinvoke ==
    /\ pc = "exited"
    /\ run < MaxRuns
    /\ run' = run + 1
    /\ prev' = RunSummary
    /\ args' = args
    /\ atConf' = atConf
    /\ catalogDir' = catalogDir
    /\ environ' \in Environs
    /\ secret' \in SecretFiles
    /\ pc' = "checkConf"
    /\ activeDb' = EmptyStr
    /\ localVNodeName' = EmptyStr
    /\ cmds' = <<>>
    /\ calls' = <<>>
    /\ stdout' = <<>>
    /\ outcome' = "running"
    /\ exitCode' = -1
    /\ raised' = ""

NextRetry ==
    \/ Next
    \/ Reinvoke

SpecRetry == Init /\ [][NextRetry]_vars

(***************************************************************************)
(* Observations used by the properties                                     *)
(***************************************************************************)
RestartLabel == "restart local Vertica node"
SecretLabel == "get dbadmin secret"
ActiveDbLabel == "get active db"
LsLabel == "get local Vertica node name"

\* positions in the command log of the commands run under a label
Issued(label) == {i \in 1..Len(cmds) : cmds[i].label = label}

\* how often main entered a function
Entered(f) == Cardinality({i \in 1..Len(calls) : calls[i] = f})

\* substring, stated on positions
HasSub(sub, s) ==
    \E i \in 1..(Len(s) - Len(sub) + 1) : SubSeq(s, i, i + Len(sub) - 1) = sub

Exited == pc = "exited"

OperationEntered ==
    Entered("reIpLocalNodeClusterUp") + Entered("restartLocalNode") > 0

OperationCommandIssued == Issued(ReIpLabel) \cup Issued(RestartLabel) # {}

\* the three gates of main, as the run has passed them so far
Gate1Passed == Entered("checkAdmintoolsConfExists") = 1 /\ atConf.isfile
Gate2Passed == Entered("getActiveDB") = 1 /\ activeDb # EmptyStr
Gate3Passed ==
    /\ Entered("getLocalVerticaNodeName") = 1
    /\ localVNodeName # EmptyStr
    /\ Len(calls) >= 3
    /\ SubSeq(calls, 1, 3)
         = <<"checkAdmintoolsConfExists", "getActiveDB", "getLocalVerticaNodeName">>
AllGatesPassed == Gate1Passed /\ Gate2Passed /\ Gate3Passed

(***************************************************************************)
(* C1: an operation is entered, and its command issued, only after the     *)
(* membership file was found, show_active_db gave a name and the resolver  *)
(* gave a node, in that order; a run that ends without passing all three   *)
(* gates ends as a clean exit with no operation entered; with the gates    *)
(* passed and one mode selected the selected operation runs exactly once.  *)
(***************************************************************************)
C1_OperationOnlyAfterGates ==
    (OperationEntered \/ OperationCommandIssued) =>
        /\ AllGatesPassed
        /\ Len(calls) = 4
        /\ Issued(ActiveDbLabel) = {1}
        /\ Issued(LsLabel) = {2}
        /\ \A i \in Issued(ReIpLabel) \cup Issued(RestartLabel) : i > 2

C1_SelectedOperationOnce ==
    (Exited /\ AllGatesPassed /\ args.reIpNode # args.restartNode) =>
        /\ Entered("reIpLocalNodeClusterUp") = (IF args.reIpNode THEN 1 ELSE 0)
        /\ Entered("restartLocalNode") = (IF args.restartNode THEN 1 ELSE 0)

C1_FailedGateExitsCleanly ==
    (Exited /\ ~AllGatesPassed) =>
        outcome = "clean" /\ exitCode = 0 /\ ~OperationEntered

C1_GatesThenOperationOnce ==
    /\ C1_OperationOnlyAfterGates
    /\ C1_SelectedOperationOnce
    /\ C1_FailedGateExitsCleanly

(***************************************************************************)
(* C2: every invocation ends as a clean exit, a reported success or a      *)
(* reported failure; no exception is left uncaught.                        *)
(***************************************************************************)
C2_NoUncaughtException ==
    Exited => outcome \in {"clean", "success", "failure"} /\ raised = ""

(***************************************************************************)
(* C3: the exit code is 0 for every clean no-op run and every successful   *)
(* operation, and 1 exactly when an operation was attempted and reported   *)
(* failure; 1 never comes from a run that attempted no operation.          *)
(***************************************************************************)
C3_ExitCodeMeaning ==
    Exited =>
        /\ exitCode \in {0, 1}
        /\ (exitCode = 1) = (OperationEntered /\ outcome = "failure")
        /\ ~OperationEntered => exitCode = 0

(***************************************************************************)
(* C4: in reconcile-address mode with POD_IP unset or empty, the           *)
(* reconciler fails with the address-unavailable message, the process      *)
(* exits 1, and the reconciler runs no command.                            *)
(***************************************************************************)
PodIpMissing == "POD_IP" \notin DOMAIN environ
PodIpEmpty == "POD_IP" \in DOMAIN environ /\ environ["POD_IP"] = EmptyStr

NoPodIpLine ==
    <<"Error in updating IP address for local Vertica node: ">> \o NoPodIpMsg

C4_NoPodIpFailsWithoutCommand ==
    (Exited /\ Entered("reIpLocalNodeClusterUp") = 1 /\ (PodIpMissing \/ PodIpEmpty)) =>
        /\ outcome = "failure"
        /\ exitCode = 1
        /\ stdout # <<>> /\ stdout[Len(stdout)] = NoPodIpLine
        /\ Issued(SecretLabel) = {}
        /\ Issued(ReIpLabel) = {}

(***************************************************************************)
(* C5: once db_change_node_ip has run, the invocation reports success and  *)
(* exits 0 if and only if the command's output holds the "updated          *)
(* successfully" phrase or the "up-to-date" phrase, whatever the command's *)
(* exit status; otherwise it reports the check-admintools.log failure and  *)
(* exits 1.                                                                *)
(***************************************************************************)
ReIpOut == cmds[CHOOSE i \in Issued(ReIpLabel) : TRUE].out
ReIpStatus == cmds[CHOOSE i \in Issued(ReIpLabel) : TRUE].returncode

ReIpPhraseSeen ==
    HasSub(nodeReIpMsg, ReIpOut) \/ HasSub(nodeNoIpChangeMsg, ReIpOut)

ReIpFailedLine ==
    <<"Error in updating IP address for local Vertica node: ">> \o ReIpFailedMsg

C5_ReIpSuccessIffPhrase ==
    Issued(ReIpLabel) # {} =>
        /\ Exited
        /\ Cardinality(Issued(ReIpLabel)) = 1
        /\ ReIpPhraseSeen => outcome = "success" /\ exitCode = 0
        /\ ~ReIpPhraseSeen =>
               /\ outcome = "failure"
               /\ exitCode = 1
               /\ stdout[Len(stdout)] = ReIpFailedLine

\* the command printed the phrase and exited with status 1
C5_Witness ==
    /\ Issued(ReIpLabel) # {}
    /\ ReIpOut = nodeReIpMsg \o <<NL>>
    /\ ReIpStatus = 1
    /\ outcome = "success"
    /\ exitCode = 0

(***************************************************************************)
(* C6: once restart_node has run, the invocation reports success and exits *)
(* 0 if and only if the output holds "<node>: (UP)" for the resolved local *)
(* node; any other output, a different node UP or the local node in        *)
(* another state included, gives the reported failure and exit 1.          *)
(***************************************************************************)
RestartOut == cmds[CHOOSE i \in Issued(RestartLabel) : TRUE].out

LocalNodeUpSeen == HasSub(localVNodeName \o <<":", Sp, "(UP)">>, RestartOut)

RestartFailedLine ==
    <<"Error in restarting local Vertica node: ">> \o RestartFailedMsg

C6_RestartSuccessIffLocalNodeUp ==
    Issued(RestartLabel) # {} =>
        /\ Exited
        /\ Cardinality(Issued(RestartLabel)) = 1
        /\ LocalNodeUpSeen => outcome = "success" /\ exitCode = 0
        /\ ~LocalNodeUpSeen =>
               /\ outcome = "failure"
               /\ exitCode = 1
               /\ stdout[Len(stdout)] = RestartFailedLine

\* the local node is node0001 and the output reports it DOWN and node0002 UP
C6_Witness ==
    /\ Issued(RestartLabel) # {}
    /\ localVNodeName = NodeName("node0001")
    /\ RestartOut = DownLine("node0001") \o <<NL>> \o UpLine("node0002") \o <<NL>>
    /\ outcome = "failure"
    /\ exitCode = 1

(***************************************************************************)
(* C7: when the membership file is absent the run exits 0, whatever the    *)
(* flags, and runs no command at all.                                      *)
(***************************************************************************)
C7_NoMembershipFileNoCommand ==
    ~atConf.isfile =>
        /\ cmds = <<>>
        /\ pc \in {"checkConf", "exited"}
        /\ Exited => exitCode = 0 /\ outcome = "clean" /\ calls = <<"checkAdmintoolsConfExists">>

C7_Witness ==
    /\ ~atConf.isfile
    /\ args.reIpNode
    /\ Exited
    /\ exitCode = 0
    /\ cmds = <<>>

(***************************************************************************)
(* C8: when show_active_db prints nothing the run exits 0 and               *)
(* show_active_db is the only and last command of the run.                 *)
(***************************************************************************)
C8_EmptyActiveDbIsLastCommand ==
    (cmds # <<>> /\ cmds[1].out = EmptyStr) =>
        /\ cmds[1].label = ActiveDbLabel
        /\ Len(cmds) = 1
        /\ Exited
        /\ exitCode = 0
        /\ outcome = "clean"
        /\ ~OperationEntered

C8_Witness ==
    /\ Exited
    /\ args.restartNode
    /\ Len(cmds) = 1
    /\ cmds[1].label = ActiveDbLabel
    /\ cmds[1].out = EmptyStr
    /\ cmds[1].returncode = 0
    /\ exitCode = 0

(***************************************************************************)
(* C9: two consecutive reconcile-address invocations with the same active  *)
(* database, local node and pod address, the first answered with the       *)
(* "updated successfully" phrase and the second with the "up-to-date"      *)
(* phrase, both exit 0.  As claimed: and the second issues the same        *)
(* command as the first.  As amended: it does so when the retrieved        *)
(* credential is the same, too.                                            *)
(***************************************************************************)
SecondReIpOfSameNode ==
    /\ run >= 2
    /\ prev.issued
    /\ Issued(ReIpLabel) # {}
    /\ prev.db = activeDb
    /\ prev.node = localVNodeName
    /\ prev.ip = environ["POD_IP"]
    /\ HasSub(nodeReIpMsg, prev.out)
    /\ HasSub(nodeNoIpChangeMsg, ReIpOut)

ReIpCommand == cmds[CHOOSE i \in Issued(ReIpLabel) : TRUE].args

CredentialNow == RStrip(CatSecret(secret))

C9_ReIpTwiceSameCommand ==
    SecondReIpOfSameNode =>
        /\ prev.exitCode = 0
        /\ Exited /\ exitCode = 0 /\ outcome = "success"
        /\ ReIpCommand = prev.args

C9_ReIpTwiceSameCredential ==
    SecondReIpOfSameNode =>
        /\ prev.exitCode = 0
        /\ Exited /\ exitCode = 0 /\ outcome = "success"
        /\ (CredentialNow = prev.pwd) = (ReIpCommand = prev.args)

C9_Witness ==
    /\ SecondReIpOfSameNode
    /\ CredentialNow = <<"secret">>
    /\ prev.pwd = <<"secret">>
    /\ ReIpCommand = prev.args
    /\ exitCode = 0

(***************************************************************************)
(* C10: the resolver never raises: for a membership file that is missing,  *)
(* empty, unparsable, without a Nodes section, or whose Nodes section has  *)
(* no first entry or a malformed one, it returns not-found, and the run    *)
(* exits 0 without change-node-address or restart-node; for a missing or   *)
(* empty file it runs no catalog listing.                                  *)
(***************************************************************************)
FirstEntryBad(file) ==
    file.hasNodes /\ (file.nodes = <<>> \/ Len(Split(file.nodes[1][2], ",")) < 2)

Unresolvable(file) ==
    \/ ~file.isfile
    \/ file.st_size = 0
    \/ file.parseError
    \/ ~file.hasNodes
    \/ FirstEntryBad(file)

C10_ResolverNeverFatal ==
    /\ LET r == getLocalVerticaNodeName(MyDb, ConfMissing, catalogDir)
       IN  r.raised = "" /\ ~r.succeeded /\ r.cmds = <<>>
    /\ (Entered("getLocalVerticaNodeName") = 1 /\ Unresolvable(atConf)) =>
           /\ LET r == getLocalVerticaNodeName(activeDb, atConf, catalogDir)
              IN  /\ r.raised = ""
                  /\ ~r.succeeded
                  /\ atConf.st_size = 0 => r.cmds = <<>>
           /\ Exited
           /\ raised = ""
           /\ outcome = "clean"
           /\ exitCode = 0
           /\ ~OperationCommandIssued
           /\ atConf.st_size = 0 => Issued(LsLabel) = {}

(***************************************************************************)
(* C11: the catalog path in the catalog listing command comes from the     *)
(* value of the first entry of the Nodes section alone.  As claimed: it is *)
(* the third comma-separated token of that value.  As amended: it is the   *)
(* second.                                                                 *)
(***************************************************************************)
CommasOf(v) == {i \in 1..Len(v) : v[i] = ","}

\* position of the n-th comma of v; 0 before the first field, Len(v) + 1
\* after the last
NthComma(v, n) ==
    IF n = 0 THEN 0
    ELSE IF n > Cardinality(CommasOf(v)) THEN Len(v) + 1
    ELSE CHOOSE p \in CommasOf(v) :
             Cardinality({q \in CommasOf(v) : q < p}) = n - 1

\* the k-th comma-separated token of v, counted from 1
Field(v, k) == SubSeq(v, NthComma(v, k - 1) + 1, NthComma(v, k) - 1)

LsCommand == cmds[CHOOSE i \in Issued(LsLabel) : TRUE].args

ListsDirectoryOf(path) ==
    StartsWith(LsCommand, <<"ls", Sp>> \o path \o <<"/">> \o activeDb \o <<"/", Sp>>)

FirstEntryOnly == [atConf EXCEPT !.nodes = <<atConf.nodes[1]>>]

C11_CatalogPathIsThirdField ==
    Issued(LsLabel) # {} => ListsDirectoryOf(Field(atConf.nodes[1][2], 3))

C11_CatalogPathIsSecondField ==
    Issued(LsLabel) # {} =>
        /\ ListsDirectoryOf(Field(atConf.nodes[1][2], 2))
        /\ getLocalVerticaNodeName(activeDb, FirstEntryOnly, catalogDir)
             = getLocalVerticaNodeName(activeDb, atConf, catalogDir)

\* the second entry names another catalog path than the first
C11_Witness ==
    /\ Issued(LsLabel) # {}
    /\ atConf = ConfMixed
    /\ ListsDirectoryOf(CatPath)
    /\ localVNodeName = NodeName("node0001")

(***************************************************************************)
(* C12: the node identifier is a function of the listing of the catalog    *)
(* directory alone: of the entries that start with "v_" and end with       *)
(* "_catalog" the lexicographically first, without its last underscore     *)
(* segment; [v_mydb_node0001_catalog, v_mydb_node0002_catalog] gives       *)
(* v_mydb_node0001; no such entry gives not-found; the identifier is one   *)
(* line and starts with "v_".                                              *)
(***************************************************************************)
\* the entries of the directory the listing command names
Listed ==
    LET lines == Ls(Field(atConf.nodes[1][2], 2), activeDb, catalogDir)
    IN  {lines[i] : i \in 1..Len(lines)}

IsCatalogEntry(n) ==
    /\ Len(n) >= 4
    /\ SubSeq(n, 1, 2) = <<"v", "_">>
    /\ SubSeq(n, Len(n) - 1, Len(n)) = <<"_", "catalog">>

CatalogEntries == {n \in Listed : IsCatalogEntry(n)}

FirstCatalogEntry ==
    CHOOSE x \in CatalogEntries : \A y \in CatalogEntries : x = y \/ LexLess(x, y)

WithoutLastSegment(n) ==
    LET p == CHOOSE i \in 1..Len(n) :
                 n[i] = "_" /\ \A j \in (i + 1)..Len(n) : n[j] # "_"
    IN  SubSeq(n, 1, p - 1)

C12_NodeIdFromListing ==
    Issued(LsLabel) # {} =>
        /\ CatalogEntries = {} =>
               localVNodeName = EmptyStr /\ Exited /\ outcome = "clean"
        /\ CatalogEntries # {} =>
               /\ localVNodeName = WithoutLastSegment(FirstCatalogEntry)
               /\ SubSeq(localVNodeName, 1, 2) = <<"v", "_">>
               /\ \A i \in 1..Len(localVNodeName) : localVNodeName[i] # NL
               /\ Gate3Passed
        /\ Listed = {CatalogName("node0001"), CatalogName("node0002")} =>
               localVNodeName = NodeName("node0001")

C12_Witness ==
    /\ Issued(LsLabel) # {}
    /\ Listed = {CatalogName("node0001"), CatalogName("node0002")}
    /\ localVNodeName = NodeName("node0001")

(***************************************************************************)
(* C13: the database name getActiveDB returns.  As claimed: the first      *)
(* whitespace-delimited token of the output, non-empty whenever the output *)
(* has a non-whitespace token, and the run then passes the gate.  As       *)
(* amended: the text before the first space of the output without its      *)
(* trailing whitespace; the run passes the gate exactly when that text is  *)
(* not empty.                                                              *)
(***************************************************************************)
ActiveDbOut == cmds[CHOOSE i \in Issued(ActiveDbLabel) : TRUE].out

NonBlanks(o) == {i \in 1..Len(o) : o[i] \notin {" ", "\t", "\n"}}

\* the first maximal run of non-whitespace of o
FirstToken(o) ==
    LET a == CHOOSE i \in NonBlanks(o) : \A j \in NonBlanks(o) : i <= j
        b == CHOOSE i \in a..Len(o) :
                 /\ \A j \in a..i : j \in NonBlanks(o)
                 /\ (i + 1) \in 1..Len(o) => (i + 1) \notin NonBlanks(o)
    IN  SubSeq(o, a, b)

\* o up to its last non-whitespace character
TrimmedRight(o) ==
    IF NonBlanks(o) = {} THEN EmptyStr
    ELSE SubSeq(o, 1, CHOOSE i \in NonBlanks(o) : \A j \in NonBlanks(o) : j <= i)

\* o up to, not including, its first space
BeforeFirstSpace(o) ==
    IF \A i \in 1..Len(o) : o[i] # " " THEN o
    ELSE SubSeq(o, 1, (CHOOSE i \in 1..Len(o) :
                           o[i] = " " /\ \A j \in 1..(i - 1) : o[j] # " ") - 1)

PastActiveDbGate == ~(Exited /\ Len(calls) = 2)

C13_FirstWhitespaceToken ==
    Issued(ActiveDbLabel) # {} =>
        /\ NonBlanks(ActiveDbOut) # {} =>
               /\ activeDb = FirstToken(ActiveDbOut)
               /\ activeDb # EmptyStr
               /\ PastActiveDbGate
        /\ activeDb = EmptyStr => NonBlanks(ActiveDbOut) = {}

C13_TextBeforeFirstSpace ==
    Issued(ActiveDbLabel) # {} =>
        /\ activeDb = BeforeFirstSpace(TrimmedRight(ActiveDbOut))
        /\ PastActiveDbGate = (activeDb # EmptyStr)
        /\ ~PastActiveDbGate => outcome = "clean" /\ exitCode = 0

\* a tab after the name: the tab and what follows stay in the name
C13_Witness ==
    /\ Issued(ActiveDbLabel) # {}
    /\ ActiveDbOut = <<"mydb", Tab, "extra", NL>>
    /\ activeDb = <<"mydb", Tab, "extra">>
    /\ PastActiveDbGate

(***************************************************************************)
(* C14: no retry inside an invocation: show_active_db, db_change_node_ip   *)
(* and restart_node are each run at most once, whatever they print or      *)
(* return, and a failed operation ends the run with exit 1, its command    *)
(* being the last one run.                                                 *)
(***************************************************************************)
\* positions in the command log of the runs of an admintools verb
RunsOf(verb) ==
    {i \in 1..Len(cmds) : HasSub(<<AdmintoolsBin, Sp, "-t", Sp, verb>>, cmds[i].args)}

AdmintoolsRuns ==
    RunsOf("show_active_db") \cup RunsOf("db_change_node_ip") \cup RunsOf("restart_node")

C14_NoInternalRetry ==
    /\ Cardinality(RunsOf("show_active_db")) <= 1
    /\ Cardinality(RunsOf("db_change_node_ip")) <= 1
    /\ Cardinality(RunsOf("restart_node")) <= 1
    /\ Len(cmds) <= 4
    /\ outcome = "failure" =>
           /\ Exited
           /\ exitCode = 1
           /\ Cardinality(AdmintoolsRuns) <= 2
           /\ \A i \in RunsOf("db_change_node_ip") \cup RunsOf("restart_node") :
                  i = Len(cmds)

\* restart_node exited non-zero without the UP line and was not run again
C14_Witness ==
    /\ outcome = "failure"
    /\ exitCode = 1
    /\ RunsOf("restart_node") = {Len(cmds)}
    /\ cmds[Len(cmds)].returncode = 1
    /\ cmds[Len(cmds)].out = EmptyStr

(***************************************************************************)
(* C15: the command of either operation carries the password option if and *)
(* only if the retrieved credential is not empty; without a credential it  *)
(* is the command with database, node (and new address) and nothing more;  *)
(* success is decided from the output text alone in both cases.            *)
(***************************************************************************)
OperationRuns == RunsOf("db_change_node_ip") \cup RunsOf("restart_node")

\* the credential as retrieved just before the operation's command
CredentialBefore(i) == TrimmedRight(cmds[i - 1].out)

HasPasswordOption(cmdArgs) == HasSub(<<Sp, "-p", Sp>>, cmdArgs)

CommandWithoutPassword(i) ==
    IF i \in RunsOf("db_change_node_ip")
    THEN <<AdmintoolsBin, Sp, "-t", Sp, "db_change_node_ip", Sp, "-d", Sp>>
             \o activeDb \o <<Sp, "-s", Sp>> \o localVNodeName
             \o <<Sp, "--new-host-ips", Sp>> \o environ["POD_IP"]
    ELSE <<AdmintoolsBin, Sp, "-t", Sp, "restart_node", Sp, "-d", Sp>>
             \o activeDb \o <<Sp, "-s", Sp>> \o localVNodeName

C15_PasswordOptionIffCredential ==
    \A i \in OperationRuns :
        /\ i > 1
        /\ cmds[i - 1].label = SecretLabel
        /\ cmds[i - 1].out = CatSecret(secret)
        /\ HasPasswordOption(cmds[i].args) = (CredentialBefore(i) # EmptyStr)
        /\ CredentialBefore(i) = EmptyStr =>
               cmds[i].args = CommandWithoutPassword(i)
        /\ CredentialBefore(i) # EmptyStr =>
               cmds[i].args
                   = CommandWithoutPassword(i) \o <<Sp, "-p", Sp>> \o CredentialBefore(i)
        /\ i \in RunsOf("db_change_node_ip") =>
               (outcome = "success") = ReIpPhraseSeen
        /\ i \in RunsOf("restart_node") =>
               (outcome = "success") = LocalNodeUpSeen

\* the secret file holds a newline only: no password option, success
C15_Witness ==
    /\ RunsOf("db_change_node_ip") # {}
    /\ secret = [isfile |-> TRUE, content |-> <<NL>>]
    /\ ~HasPasswordOption(ReIpCommand)
    /\ outcome = "success"

(***************************************************************************)
(* C16: at most one of the two operations runs in an invocation, for all   *)
(* four flag combinations: with neither flag the run does only the         *)
(* detection steps and exits 0; with both flags only the address           *)
(* reconciliation runs, the restart is never invoked, and the exit code is *)
(* that of the reconciliation alone.                                       *)
(***************************************************************************)
NeitherFlag == ~args.reIpNode /\ ~args.restartNode
BothFlags == args.reIpNode /\ args.restartNode

DetectionOnly ==
    /\ ~OperationEntered
    /\ ~OperationCommandIssued
    /\ Issued(SecretLabel) = {}
    /\ \A i \in 1..Len(cmds) : cmds[i].label \in {ActiveDbLabel, LsLabel}

\* the part on the number of operations
C16_AtMostOneOperation ==
    /\ Entered("reIpLocalNodeClusterUp") + Entered("restartLocalNode") <= 1
    /\ Cardinality(OperationRuns) <= 1
    /\ Entered("reIpLocalNodeClusterUp") = 1 => args.reIpNode
    /\ Entered("restartLocalNode") = 1 => ~args.reIpNode /\ args.restartNode

\* the part on both flags given
C16_BothFlagsOnlyReIp ==
    BothFlags =>
        /\ Entered("restartLocalNode") = 0
        /\ RunsOf("restart_node") = {}
        /\ (Exited /\ AllGatesPassed) =>
               /\ Entered("reIpLocalNodeClusterUp") = 1
               /\ exitCode = (IF outcome = "success" THEN 0 ELSE 1)
               /\ outcome = "success" =>
                      RunsOf("db_change_node_ip") # {} /\ ReIpPhraseSeen

\* the whole statement
C16_OneOperationPerFlags ==
    /\ C16_AtMostOneOperation
    /\ C16_BothFlagsOnlyReIp
    /\ NeitherFlag => DetectionOnly
    /\ (NeitherFlag /\ Exited) => exitCode = 0

=============================================================================
